---- MODULE Spec2Model ----
(***************************************************************************)
(* The Dashboard component of Uneventful                                   *)
(* (src/frontend/src/components/Dashboard.tsx) as a state machine: the     *)
(* React state of the component, the asynchronous runs of loadCalendars,   *)
(* loadEvents and handleDelete suspended at their network calls, and the   *)
(* calendar provider those calls talk to.                                  *)
(*                                                                         *)
(* A handler runs to completion in one step together with the effect of    *)
(* lines 155-162 when the handler changes one of its dependencies.  An     *)
(* asynchronous function is one step per await: the step starts when the   *)
(* awaited call answers and runs to the next await or to the end.  A       *)
(* request is served by the provider at the moment it answers.             *)
(*                                                                         *)
(* JavaScript Sets and Maps iterate in insertion order, so they are        *)
(* sequences without repetition here.  Strings are sequences of            *)
(* one-character strings; ISO start times are sequences of numbers         *)
(* compared the way localeCompare compares the text.                       *)
(***************************************************************************)
EXTENDS Integers, Sequences, FiniteSets, TLC

VARIABLES
    calendars,            \* useState<Calendar[]>                    line 19
    selectedCalendarIds,  \* useState<Set<string>>                   line 20
    events,               \* useState<CalendarEvent[]>, the aggregate line 21
    selectedIds,          \* useState<Set<string>>                   line 22
    loading,              \* line 23
    showDeleteModal,      \* line 24
    deleting,             \* line 27
    toast,                \* line 28
    timeMin,              \* line 31
    timeMax,              \* line 32
    searchQuery,          \* line 35
    server,               \* the events the calendar provider holds
    calendarsRequest,     \* the api.getCalendars() call of loadCalendars
    loads,                \* the loadEvents runs suspended at api.getEvents
    del,                  \* the handleDelete run suspended at an await
    logoutTimer,          \* a setTimeout(() => logout(), 2000) is pending
    loggedOut,            \* logout() has been called
    obs,                  \* the delete requests of the current handleDelete run
    actions,              \* the number of things the user has done
    last                  \* the step taken last: handler, argument, selection before it

vars == <<calendars, selectedCalendarIds, events, selectedIds, loading,
          showDeleteModal, deleting, toast, timeMin, timeMax, searchQuery,
          server, calendarsRequest, loads, del, logoutTimer, loggedOut, obs, actions, last>>

(***************************************************************************)
(* Bounds of the model.                                                    *)
(***************************************************************************)
\* loadEvents runs that may be in flight at once
MaxLoads == 2

\* clicks, key presses and inputs of the user in one behaviour
MaxActions == 5

(***************************************************************************)
(* Sequences as insertion-ordered sets.                                    *)
(***************************************************************************)
Range(s) == {s[i] : i \in 1..Len(s)}

Front(s) == SubSeq(s, 1, Len(s) - 1)

Remove(s, x) == SelectSeq(s, LAMBDA y : y # x)

\* d, then the elements of rest that d does not hold
AddNew(d, rest) == d \o SelectSeq(rest, LAMBDA x : x \notin Range(d))

\* the first occurrence of every element, in order
RECURSIVE Dedupe(_)
Dedupe(s) ==
    IF Len(s) <= 1 THEN s
    ELSE AddNew(Dedupe(SubSeq(s, 1, Len(s) \div 2)),
                Dedupe(SubSeq(s, Len(s) \div 2 + 1, Len(s))))

RECURSIVE Concat(_)
Concat(ss) == IF ss = <<>> THEN <<>> ELSE Head(ss) \o Concat(Tail(ss))

(***************************************************************************)
(* The calendar provider: the calendars and events of the signed-in user.  *)
(* An event as the provider returns it carries no calendarId: loadEvents   *)
(* adds it.  start.dateTime and start.date are <<day, hour, zone>> and     *)
(* <<day>>, <<>> when absent; the zone is 1 for the UTC offset +02:00 and  *)
(* 2 for Z, numbered as localeCompare orders the two texts.  summary,      *)
(* description and location are <<>> when absent.  Two calendars may hold  *)
(* events with the same id.                                                *)
(***************************************************************************)
Cal1 == [id |-> "c1", primary |-> TRUE, summary |-> <<"b">>,
         summaryOverride |-> <<>>, backgroundColor |-> "red"]

Cal2 == [id |-> "c2", primary |-> FALSE, summary |-> <<"a">>,
         summaryOverride |-> <<>>, backgroundColor |-> "blue"]

\* what api.getCalendars() may answer
CalendarLists == {<<>>, <<Cal2, Cal1>>}

\* a calendar the user renamed, and one more
Cal3 == [id |-> "c3", primary |-> FALSE, summary |-> <<"a">>,
         summaryOverride |-> <<"c">>, backgroundColor |-> "green"]

Cal4 == [id |-> "c4", primary |-> FALSE, summary |-> <<"b">>,
         summaryOverride |-> <<>>, backgroundColor |-> "grey"]

\* every list of different calendars out of the four, in every order
AnyCalendarLists ==
    {l \in UNION {[1..n -> {Cal1, Cal2, Cal3, Cal4}] : n \in 0..4} :
        \A i, j \in 1..Len(l) : i # j => l[i] # l[j]}

EvA1 == [id |-> "A", owner |-> "c1", start |-> [dateTime |-> <<2, 9, 2>>, date |-> <<>>],
         summary |-> <<"X">>, description |-> <<>>, location |-> <<>>]

EvB1 == [id |-> "B", owner |-> "c1", start |-> [dateTime |-> <<>>, date |-> <<1>>],
         summary |-> <<"y">>, description |-> <<>>, location |-> <<>>]

EvC2 == [id |-> "C", owner |-> "c2", start |-> [dateTime |-> <<2, 9, 2>>, date |-> <<>>],
         summary |-> <<"x", "y">>, description |-> <<>>, location |-> <<>>]

EvA2 == [id |-> "A", owner |-> "c2", start |-> [dateTime |-> <<3, 9, 2>>, date |-> <<>>],
         summary |-> <<"y">>, description |-> <<>>, location |-> <<>>]

\* the order in which the provider lists the events it holds
ProviderOrder == <<EvA1, EvB1, EvC2, EvA2>>

\* events of two calendars kept in two time zones, c1 in +02:00 and c2 in UTC:
\* P and S start at 09:00+02:00, an hour before Q at 08:00Z; R is an all-day
\* event of the same day
EvP1 == [id |-> "P", owner |-> "c1", start |-> [dateTime |-> <<2, 9, 1>>, date |-> <<>>],
         summary |-> <<"x">>, description |-> <<>>, location |-> <<>>]

EvR1 == [id |-> "R", owner |-> "c1", start |-> [dateTime |-> <<>>, date |-> <<2>>],
         summary |-> <<"x">>, description |-> <<>>, location |-> <<>>]

EvS1 == [id |-> "S", owner |-> "c1", start |-> [dateTime |-> <<2, 9, 1>>, date |-> <<>>],
         summary |-> <<"y">>, description |-> <<>>, location |-> <<>>]

EvQ2 == [id |-> "Q", owner |-> "c2", start |-> [dateTime |-> <<2, 8, 2>>, date |-> <<>>],
         summary |-> <<"x">>, description |-> <<>>, location |-> <<>>]

ZonedOrder == <<EvP1, EvR1, EvS1, EvQ2>>

\* loadEvents, line 91: the most events one request asks for
maxResults == 100

\* a calendar c1 with many events: the i-th of them
BulkEvent(i) ==
    [id |-> ToString(i), owner |-> "c1",
     start |-> [dateTime |-> <<2, 9, 2>>, date |-> <<>>],
     summary |-> <<"y">>, description |-> <<>>, location |-> <<>>]

\* one event more than a request returns at most
BulkOrder == [i \in 1..(maxResults + 1) |-> BulkEvent(i)]

EventIds == {e.id : e \in Range(ProviderOrder)}

\* the values the date range filter and the search bar may hand over
TimeMins == {<<1>>, <<2>>}

TimeMaxes == {<<>>, <<3>>}

Queries == {<<>>, <<"x">>}

(***************************************************************************)
(* services/api (not among the sources): the three calls of Dashboard.     *)
(***************************************************************************)
\* the hours a zone is ahead of UTC
UtcOffset(zone) == IF zone = 1 THEN 2 ELSE 0

\* the instant an ISO date or date-time denotes, in hours
Instant(t) == IF Len(t) = 1 THEN t[1] * 24 ELSE t[1] * 24 + t[2] - UtcOffset(t[3])

StartOf(e) == IF e.start.dateTime # <<>> THEN e.start.dateTime ELSE e.start.date

InWindow(e, tmin, tmax) ==
    /\ Instant(StartOf(e)) >= Instant(tmin)
    /\ tmax # <<>> => Instant(StartOf(e)) < Instant(tmax)

\* the order in which the provider lists events; the many events of BulkOrder are
\* gone through only when the account holds one of them
ShortListing == ProviderOrder \o ZonedOrder

ShortListed == Range(ShortListing)

LongListing == ShortListing \o BulkOrder

ProviderListing == IF server \subseteq ShortListed THEN ShortListing ELSE LongListing

\* api.getEvents(calendarId, {maxResults, timeMin, timeMax}): the events of the
\* calendar inside [timeMin, timeMax), cut at maxResults
GetEvents(calendarId, limit, tmin, tmax) ==
    LET found == SelectSeq(ProviderListing,
                     LAMBDA e : e \in server /\ e.owner = calendarId /\ InWindow(e, tmin, tmax))
    IN  IF Len(found) > limit THEN SubSeq(found, 1, limit) ELSE found

\* api.deleteEvents(calendarId, eventIds): every id is attempted on its own; ok is
\* the set of ids the provider deleted
DeletableIds(calendarId, eventIds) ==
    {id \in Range(eventIds) : \E e \in server : e.owner = calendarId /\ e.id = id}

ServerAfterDelete(calendarId, ok) ==
    {e \in server : ~(e.owner = calendarId /\ e.id \in ok)}

DeleteResult(eventIds, ok) ==
    [succeeded |-> Cardinality(ok), failed |-> Len(eventIds) - Cardinality(ok)]

(***************************************************************************)
(* String.prototype.localeCompare on the texts the model uses.             *)
(***************************************************************************)
Sign(n) == IF n < 0 THEN -1 ELSE IF n > 0 THEN 1 ELSE 0

\* ISO dates and date-times: digit strings of fixed field width compare as their fields
RECURSIVE LocaleCompare(_, _)
LocaleCompare(a, b) ==
    IF a = <<>> THEN (IF b = <<>> THEN 0 ELSE -1)
    ELSE IF b = <<>> THEN 1
    ELSE IF Head(a) # Head(b) THEN Sign(Head(a) - Head(b))
    ELSE LocaleCompare(Tail(a), Tail(b))

CharRank(ch) ==
    CASE ch = "a" -> 1 [] ch = "b" -> 2 [] ch = "c" -> 3 [] OTHER -> 4

RECURSIVE NameCompare(_, _)
NameCompare(a, b) ==
    IF a = <<>> THEN (IF b = <<>> THEN 0 ELSE -1)
    ELSE IF b = <<>> THEN 1
    ELSE IF CharRank(Head(a)) # CharRank(Head(b)) THEN Sign(CharRank(Head(a)) - CharRank(Head(b)))
    ELSE NameCompare(Tail(a), Tail(b))

(***************************************************************************)
(* loadCalendars, lines 41-74.                                             *)
(***************************************************************************)
\* DisplayName that ignores the name the user gave
DisplayName_SummaryOnly(c) == c.summary

DisplayName(c) == IF c.summaryOverride # <<>> THEN c.summaryOverride ELSE c.summary

\* the comparator of lines 46-54
CompareCalendars(a, b) ==
    IF a.primary /\ ~b.primary THEN -1
    ELSE IF ~a.primary /\ b.primary THEN 1
    ELSE NameCompare(DisplayName(a), DisplayName(b))

\* Array.prototype.sort is stable
RECURSIVE InsertCalendar(_, _)
InsertCalendar(s, c) ==
    IF s = <<>> THEN <<c>>
    ELSE IF CompareCalendars(s[Len(s)], c) <= 0 THEN Append(s, c)
    ELSE Append(InsertCalendar(Front(s), c), s[Len(s)])

RECURSIVE SortCalendars(_)
SortCalendars(s) ==
    IF s = <<>> THEN <<>> ELSE InsertCalendar(SortCalendars(Front(s)), s[Len(s)])

\* lines 58-64: the primary calendar, else the first one, else no change
InitialSelection(sorted, current) ==
    LET prim == SelectSeq(sorted, LAMBDA c : c.primary)
    IN  IF prim # <<>> THEN <<prim[1].id>>
        ELSE IF sorted # <<>> THEN <<sorted[1].id>>
        ELSE current

(***************************************************************************)
(* loadEvents, lines 76-131: tagging and sorting.                          *)
(***************************************************************************)
CalendarColor(calendarId) ==
    LET found == SelectSeq(calendars, LAMBDA c : c.id = calendarId)
    IN  IF found # <<>> THEN found[1].backgroundColor ELSE "undefined"

\* TagEvent tagging with the first selected calendar instead of the one fetched
TagEvent_FirstSelected(e, calendarId) ==
    [id |-> e.id, calendarId |-> Head(selectedCalendarIds \o <<calendarId>>),
     calendarColor |-> CalendarColor(calendarId),
     start |-> e.start, summary |-> e.summary, description |-> e.description,
     location |-> e.location]

\* lines 97-101
TagEvent(e, calendarId) ==
    [id |-> e.id, calendarId |-> calendarId, calendarColor |-> CalendarColor(calendarId),
     start |-> e.start, summary |-> e.summary, description |-> e.description,
     location |-> e.location]

TagEvents(fetched, calendarId) ==
    [i \in 1..Len(fetched) |-> TagEvent(fetched[i], calendarId)]

\* lines 107-109
StartKey(e) ==
    IF e.start.dateTime # <<>> THEN e.start.dateTime
    ELSE IF e.start.date # <<>> THEN e.start.date ELSE <<>>

CompareEvents(a, b) == LocaleCompare(StartKey(a), StartKey(b))

\* the place Array.prototype.sort gives each element: the sort is stable, so an
\* element goes after those that compare lower and after the equal ones before it
SortRanks(s) ==
    SubSeq([i \in 1..Len(s) |->
               Cardinality({j \in 1..Len(s) :
                   IF j <= i THEN CompareEvents(s[j], s[i]) <= 0
                   ELSE CompareEvents(s[j], s[i]) < 0})], 1, Len(s))

PlaceByRank(s, rank) == [k \in 1..Len(s) |-> s[CHOOSE i \in 1..Len(s) : rank[i] = k]]

SortEvents(s) == PlaceByRank(s, SortRanks(s))

(***************************************************************************)
(* filteredEvents, lines 174-193.  A character outside ASCII is written    *)
(* by name: "e_acute" is U+00E9, "acute" the combining mark U+0301.        *)
(***************************************************************************)
\* String.prototype.normalize('NFD') on one character
Decompose(ch) ==
    CASE ch = "e_acute" -> <<"e", "acute">>
      [] ch = "E_ACUTE" -> <<"E", "acute">>
      [] OTHER -> <<ch>>

\* the class U+0300..U+036F of line 180; "acute" is U+0301
IsCombiningMark(ch) == ch = "acute"

ToLowerCase(ch) ==
    CASE ch = "X" -> "x" [] ch = "Y" -> "y" [] ch = "E" -> "e" [] ch = "C" -> "c"
      [] ch = "E_ACUTE" -> "e_acute" [] OTHER -> ch

\* lines 179-180
normalizeString(str) ==
    LET nfd == Concat([i \in 1..Len(str) |-> Decompose(str[i])])
        stripped == SelectSeq(nfd, LAMBDA ch : ~IsCombiningMark(ch))
    IN  [i \in 1..Len(stripped) |-> ToLowerCase(stripped[i])]

\* String.prototype.includes
Includes(hay, needle) ==
    \E i \in 0..(Len(hay) - Len(needle)) : SubSeq(hay, i + 1, i + Len(needle)) = needle

\* utils/stripHtml (not among the sources): the text outside <...> tags
RECURSIVE StripFrom(_, _)
StripFrom(str, inTag) ==
    IF str = <<>> THEN <<>>
    ELSE IF inTag THEN StripFrom(Tail(str), Head(str) # ">")
    ELSE IF Head(str) = "<" THEN StripFrom(Tail(str), TRUE)
    ELSE <<Head(str)>> \o StripFrom(Tail(str), FALSE)

stripHtml(str) == StripFrom(str, FALSE)

\* EventMatches looking at the title only
EventMatches_TitleOnly(e, normalizedQuery) ==
    e.summary # <<>> /\ Includes(normalizeString(e.summary), normalizedQuery)

\* lines 184-192
EventMatches(e, normalizedQuery) ==
    \/ e.summary # <<>> /\ Includes(normalizeString(e.summary), normalizedQuery)
    \/ e.description # <<>> /\ Includes(normalizeString(stripHtml(e.description)), normalizedQuery)
    \/ e.location # <<>> /\ Includes(normalizeString(e.location), normalizedQuery)

\* Filter listing the matches last to first
Filter_LastFirst(evs, query) ==
    LET kept == IF query = <<>> THEN evs
                ELSE SelectSeq(evs, LAMBDA e : EventMatches(e, normalizeString(query)))
    IN  [i \in 1..Len(kept) |-> kept[Len(kept) + 1 - i]]

\* Filter without the early return of line 176
Filter_NoEarlyReturn(evs, query) ==
    SelectSeq(evs, LAMBDA e : EventMatches(e, normalizeString(query)))

\* lines 174-193: the events of the aggregate the search query keeps
Filter(evs, query) ==
    IF query = <<>> THEN evs
    ELSE SelectSeq(evs, LAMBDA e : EventMatches(e, normalizeString(query)))

filteredEvents == Filter(events, searchQuery)

VisibleIds == {e.id : e \in Range(filteredEvents)}

\* the count line, lines 410-412: "(max 100 shown at once)" is appended
ShowsMaxNotice == Len(filteredEvents) = 100

(***************************************************************************)
(* Values of the state.                                                    *)
(***************************************************************************)
NoToast == [kind |-> "none", type |-> "none", succeeded |-> 0, failed |-> 0]

\* 'Your session has expired. Please sign in again.'
SessionExpiredToast == [kind |-> "sessionExpired", type |-> "info", succeeded |-> 0, failed |-> 0]

\* 'Failed to load calendar events. Please try again.'
LoadFailedToast == [kind |-> "loadFailed", type |-> "error", succeeded |-> 0, failed |-> 0]

\* 'Failed to delete events. Please try again.'
DeleteFailedToast == [kind |-> "deleteFailed", type |-> "error", succeeded |-> 0, failed |-> 0]

\* DeleteToast with the branch of lines 276-281 only
DeleteToast_AlwaysSuccess(totalSucceeded, totalFailed) ==
    [kind |-> "deleted", type |-> "success", succeeded |-> totalSucceeded, failed |-> 0]

\* lines 269-281: kind names the message, succeeded and failed the counts it states
DeleteToast(totalSucceeded, totalFailed) ==
    IF totalFailed > 0
    THEN [kind |-> "deletedSomeFailed", type |-> "error",
          succeeded |-> totalSucceeded, failed |-> totalFailed]
    ELSE [kind |-> "deleted", type |-> "success", succeeded |-> totalSucceeded, failed |-> 0]

\* no handleDelete is running
IdleDelete == [pc |-> "idle", queue |-> <<>>, totalSucceeded |-> 0, totalFailed |-> 0,
               calendarIds |-> <<>>, timeMin |-> <<>>, timeMax |-> <<>>]

NoObs == [planned |-> <<>>, calls |-> <<>>, results |-> <<>>, outcome |-> "none"]

RemoveAt(s, i) == SubSeq(s, 1, i - 1) \o SubSeq(s, i + 1, Len(s))

(***************************************************************************)
(* loadEvents, lines 76-131.  A run keeps what its closure captured: the   *)
(* selected calendars and the time window of the render that created it.   *)
(***************************************************************************)
\* lines 77-90: up to the first api.getEvents
LoadEvents(calendarIds, tmin, tmax, awaited) ==
    IF calendarIds = <<>>
    THEN /\ events' = <<>>
         /\ loading' = FALSE
         /\ loads' = loads
    ELSE /\ loading' = TRUE
         /\ events' = events
         /\ loads' = Append(loads, [calendarIds |-> calendarIds, timeMin |-> tmin,
                                    timeMax |-> tmax, allEvents |-> <<>>,
                                    awaited |-> awaited])

\* lines 298-300, reached when handleDelete's await loadEvents() returns
HandleDeleteFinally(awaited) ==
    IF awaited
    THEN deleting' = FALSE /\ del' = IdleDelete
    ELSE UNCHANGED <<deleting, del>>

\* lines 90-115 and 128-130: api.getEvents answers the run loads[i]
LoadEventsFetched(i) ==
    LET run == loads[i]
        calendarId == Head(run.calendarIds)
        fetched == GetEvents(calendarId, maxResults, run.timeMin, run.timeMax)
        allEvents == run.allEvents \o TagEvents(fetched, calendarId)
    IN  /\ IF Tail(run.calendarIds) # <<>>
           THEN /\ loads' = [loads EXCEPT ![i] = [run EXCEPT !.calendarIds = Tail(run.calendarIds),
                                                             !.allEvents = allEvents]]
                /\ UNCHANGED <<events, loading, deleting, del>>
           ELSE /\ events' = SortEvents(allEvents)
                /\ loading' = FALSE
                /\ loads' = RemoveAt(loads, i)
                /\ HandleDeleteFinally(run.awaited)
        /\ UNCHANGED <<calendars, selectedCalendarIds, selectedIds, showDeleteModal, toast,
                       timeMin, timeMax, searchQuery, server, calendarsRequest,
                       logoutTimer, loggedOut>>

\* lines 116-124 and 128-130: api.getEvents throws AuthError TOKEN_EXPIRED
LoadEventsAuthError(i) ==
    /\ toast' = SessionExpiredToast
    /\ logoutTimer' = TRUE
    /\ loading' = FALSE
    /\ loads' = RemoveAt(loads, i)
    /\ HandleDeleteFinally(loads[i].awaited)
    /\ UNCHANGED <<calendars, selectedCalendarIds, events, selectedIds, showDeleteModal,
                   timeMin, timeMax, searchQuery, server, calendarsRequest, loggedOut>>

\* LoadEventsFailed storing what the run had fetched before the failure
LoadEventsFailed_StoresPartial(i) ==
    /\ toast' = LoadFailedToast
    /\ loading' = FALSE
    /\ events' = SortEvents(loads[i].allEvents)
    /\ loads' = RemoveAt(loads, i)
    /\ HandleDeleteFinally(loads[i].awaited)
    /\ UNCHANGED <<calendars, selectedCalendarIds, selectedIds, showDeleteModal,
                   timeMin, timeMax, searchQuery, server, calendarsRequest,
                   logoutTimer, loggedOut>>

\* lines 116-130: api.getEvents throws anything else
LoadEventsFailed(i) ==
    /\ toast' = LoadFailedToast
    /\ loading' = FALSE
    /\ loads' = RemoveAt(loads, i)
    /\ HandleDeleteFinally(loads[i].awaited)
    /\ UNCHANGED <<calendars, selectedCalendarIds, events, selectedIds, showDeleteModal,
                   timeMin, timeMax, searchQuery, server, calendarsRequest,
                   logoutTimer, loggedOut>>

\* EventsEffect without the branch of lines 158-161
EventsEffect_LoadsOnly(calendarIds, cals, tmin, tmax) ==
    IF calendarIds # <<>> /\ cals # <<>>
    THEN LoadEvents(calendarIds, tmin, tmax, FALSE)
    ELSE UNCHANGED <<events, loading, loads>>

\* the effect of lines 155-162, run after a render that changed a dependency
EventsEffect(calendarIds, cals, tmin, tmax) ==
    IF calendarIds # <<>> /\ cals # <<>>
    THEN LoadEvents(calendarIds, tmin, tmax, FALSE)
    ELSE IF cals # <<>>
    THEN events' = <<>> /\ UNCHANGED <<loading, loads>>
    ELSE UNCHANGED <<events, loading, loads>>

(***************************************************************************)
(* loadCalendars, lines 41-74, resumed by the answer of api.getCalendars.  *)
(***************************************************************************)
LoadCalendarsFetched(fetchedCalendars) ==
    LET sortedCalendars == SortCalendars(fetchedCalendars)
        selected == InitialSelection(sortedCalendars, selectedCalendarIds)
    IN  /\ calendarsRequest' = "done"
        /\ calendars' = sortedCalendars
        /\ selectedCalendarIds' = selected
        /\ EventsEffect(selected, sortedCalendars, timeMin, timeMax)
        /\ UNCHANGED <<selectedIds, showDeleteModal, deleting, toast, timeMin, timeMax,
                       searchQuery, server, del, logoutTimer, loggedOut>>

\* LoadCalendarsAuthError doing what line 66 does and no more
LoadCalendarsAuthError_LogsOnly ==
    /\ calendarsRequest' = "failed"
    /\ UNCHANGED <<calendars, selectedCalendarIds, events, selectedIds, loading,
                   showDeleteModal, deleting, toast, timeMin, timeMax, searchQuery, server,
                   loads, del, logoutTimer, loggedOut>>

\* lines 65-72
LoadCalendarsAuthError ==
    /\ calendarsRequest' = "failed"
    /\ toast' = SessionExpiredToast
    /\ logoutTimer' = TRUE
    /\ UNCHANGED <<calendars, selectedCalendarIds, events, selectedIds, loading,
                   showDeleteModal, deleting, timeMin, timeMax, searchQuery, server,
                   loads, del, loggedOut>>

\* lines 65-66 and 73: any other error is logged only
LoadCalendarsFailed ==
    /\ calendarsRequest' = "failed"
    /\ UNCHANGED <<calendars, selectedCalendarIds, events, selectedIds, loading,
                   showDeleteModal, deleting, toast, timeMin, timeMax, searchQuery, server,
                   loads, del, logoutTimer, loggedOut>>

(***************************************************************************)
(* The handlers of lines 133-241.                                          *)
(***************************************************************************)
\* lines 134-139
ToggleMember(set, x) == IF x \in Range(set) THEN Remove(set, x) ELSE Append(set, x)

\* HandleCalendarToggle without line 141
HandleCalendarToggle_KeepsSelection(calendarId) ==
    LET newSelected == ToggleMember(selectedCalendarIds, calendarId)
    IN  /\ selectedCalendarIds' = newSelected
        /\ EventsEffect(newSelected, calendars, timeMin, timeMax)
        /\ UNCHANGED <<calendars, selectedIds, showDeleteModal, deleting, toast, timeMin,
                       timeMax, searchQuery, server, calendarsRequest, del, logoutTimer,
                       loggedOut>>

HandleCalendarToggle(calendarId) ==
    LET newSelected == ToggleMember(selectedCalendarIds, calendarId)
    IN  /\ selectedCalendarIds' = newSelected
        /\ selectedIds' = <<>>
        /\ EventsEffect(newSelected, calendars, timeMin, timeMax)
        /\ UNCHANGED <<calendars, showDeleteModal, deleting, toast, timeMin, timeMax,
                       searchQuery, server, calendarsRequest, del, logoutTimer, loggedOut>>

\* HandleDateRangeChange that clears the selection, as handleCalendarToggle does
HandleDateRangeChange_ClearsSelection(newTimeMin, newTimeMax) ==
    /\ timeMin' = newTimeMin
    /\ timeMax' = newTimeMax
    /\ selectedIds' = <<>>
    /\ IF newTimeMin # timeMin \/ newTimeMax # timeMax
       THEN EventsEffect(selectedCalendarIds, calendars, newTimeMin, newTimeMax)
       ELSE UNCHANGED <<events, loading, loads>>
    /\ UNCHANGED <<calendars, selectedCalendarIds, showDeleteModal, deleting,
                   toast, searchQuery, server, calendarsRequest, del, logoutTimer, loggedOut>>

HandleDateRangeChange(newTimeMin, newTimeMax) ==
    /\ timeMin' = newTimeMin
    /\ timeMax' = newTimeMax
    /\ IF newTimeMin # timeMin \/ newTimeMax # timeMax
       THEN EventsEffect(selectedCalendarIds, calendars, newTimeMin, newTimeMax)
       ELSE UNCHANGED <<events, loading, loads>>
    /\ UNCHANGED <<calendars, selectedCalendarIds, selectedIds, showDeleteModal, deleting,
                   toast, searchQuery, server, calendarsRequest, del, logoutTimer, loggedOut>>

\* lines 196-203
SelectAllResult(selected, filtered) ==
    IF Len(selected) = Len(filtered)
    THEN <<>>
    ELSE Dedupe([i \in 1..Len(filtered) |-> filtered[i].id])

HandleSelectAll ==
    /\ selectedIds' = SelectAllResult(selectedIds, filteredEvents)
    /\ UNCHANGED <<calendars, selectedCalendarIds, events, loading, showDeleteModal,
                   deleting, toast, timeMin, timeMax, searchQuery, server,
                   calendarsRequest, loads, del, logoutTimer, loggedOut>>

\* HandleToggleEvent that only ever adds
HandleToggleEvent_OnlyAdds(eventId) ==
    /\ selectedIds' = IF eventId \in Range(selectedIds) THEN selectedIds
                      ELSE Append(selectedIds, eventId)
    /\ UNCHANGED <<calendars, selectedCalendarIds, events, loading, showDeleteModal,
                   deleting, toast, timeMin, timeMax, searchQuery, server,
                   calendarsRequest, loads, del, logoutTimer, loggedOut>>

\* lines 205-218
HandleToggleEvent(eventId) ==
    /\ selectedIds' = ToggleMember(selectedIds, eventId)
    /\ UNCHANGED <<calendars, selectedCalendarIds, events, loading, showDeleteModal,
                   deleting, toast, timeMin, timeMax, searchQuery, server,
                   calendarsRequest, loads, del, logoutTimer, loggedOut>>

\* HandleSearchChange that drops the marks of the events the query hides
HandleSearchChange_PrunesSelection(query) ==
    /\ searchQuery' = query
    /\ selectedIds' = SelectSeq(selectedIds,
                          LAMBDA id : \E e \in Range(Filter(events, query)) : e.id = id)
    /\ UNCHANGED <<calendars, selectedCalendarIds, events, loading,
                   showDeleteModal, deleting, toast, timeMin, timeMax, server,
                   calendarsRequest, loads, del, logoutTimer, loggedOut>>

\* lines 220-225
HandleSearchChange(query) ==
    /\ searchQuery' = query
    /\ UNCHANGED <<calendars, selectedCalendarIds, events, selectedIds, loading,
                   showDeleteModal, deleting, toast, timeMin, timeMax, server,
                   calendarsRequest, loads, del, logoutTimer, loggedOut>>

\* lines 227-231
HandleRefresh ==
    /\ selectedIds' = <<>>
    /\ LoadEvents(selectedCalendarIds, timeMin, timeMax, FALSE)
    /\ UNCHANGED <<calendars, selectedCalendarIds, showDeleteModal, deleting, toast,
                   timeMin, timeMax, searchQuery, server, calendarsRequest, del,
                   logoutTimer, loggedOut>>

\* lines 238-241
HandleDeleteModalOpen ==
    /\ showDeleteModal' = TRUE
    /\ UNCHANGED <<calendars, selectedCalendarIds, events, selectedIds, loading, deleting,
                   toast, timeMin, timeMax, searchQuery, server, calendarsRequest, loads,
                   del, logoutTimer, loggedOut>>

\* line 598 and lines 316-317
CloseDeleteModal ==
    /\ showDeleteModal' = FALSE
    /\ UNCHANGED <<calendars, selectedCalendarIds, events, selectedIds, loading, deleting,
                   toast, timeMin, timeMax, searchQuery, server, calendarsRequest, loads,
                   del, logoutTimer, loggedOut>>

\* line 624
CloseToast ==
    /\ toast' = NoToast
    /\ UNCHANGED <<calendars, selectedCalendarIds, events, selectedIds, loading,
                   showDeleteModal, deleting, timeMin, timeMax, searchQuery, server,
                   calendarsRequest, loads, del, logoutTimer, loggedOut>>

\* the timers of lines 71, 122 and 292
Logout ==
    /\ loggedOut' = TRUE
    /\ logoutTimer' = FALSE
    /\ UNCHANGED <<calendars, selectedCalendarIds, events, selectedIds, loading,
                   showDeleteModal, deleting, toast, timeMin, timeMax, searchQuery, server,
                   calendarsRequest, loads, del>>

(***************************************************************************)
(* handleDelete, lines 243-301.  del.queue holds the entries of            *)
(* eventsByCalendar not yet answered; its head is the call in flight.      *)
(* obs records the calls the run has made and what each answered.          *)
(***************************************************************************)
\* lines 250-258: the Map eventsByCalendar, in insertion order
\* lines 250-251: the calendar of the first event with the id, <<>> when there is none
CalendarOf(eventId, evs) ==
    LET found == SelectSeq(evs, LAMBDA e : e.id = eventId)
    IN  IF found = <<>> THEN <<>> ELSE <<found[1].calendarId>>

CalendarsOf(ids, evs) == SubSeq([i \in 1..Len(ids) |-> CalendarOf(ids[i], evs)], 1, Len(ids))

\* the ids at the places where at holds the calendar
IdsAt(ids, at, calendarId) ==
    LET places == SelectSeq([i \in 1..Len(ids) |-> i], LAMBDA i : at[i] = <<calendarId>>)
    IN  [k \in 1..Len(places) |-> ids[places[k]]]

\* lines 249-258: a Map keeps its keys in the order of their first insertion
GroupInto(ids, at, keys) ==
    [k \in 1..Len(keys) |->
        [calendarId |-> keys[k][1], eventIds |-> IdsAt(ids, at, keys[k][1])]]

GroupIds(ids, at) == GroupInto(ids, at, Dedupe(SelectSeq(at, LAMBDA c : c # <<>>)))

\* GroupByCalendar that looks the ids up in the filtered view
GroupByCalendar_InFiltered(selected, evs) ==
    GroupIds(selected, CalendarsOf(selected, Filter(evs, searchQuery)))

GroupByCalendar(selected, evs) == GroupIds(selected, CalendarsOf(selected, evs))

\* Accumulate with = in place of +=
Accumulate_Overwrites(d, result) ==
    [d EXCEPT !.totalSucceeded = result.succeeded, !.totalFailed = result.failed]

\* Accumulate that counts the first answer only
Accumulate_FirstOnly(d, result) ==
    IF d.totalSucceeded + d.totalFailed > 0 THEN d
    ELSE [d EXCEPT !.totalSucceeded = result.succeeded, !.totalFailed = result.failed]

\* lines 265-266
Accumulate(d, result) ==
    [d EXCEPT !.totalSucceeded = @ + result.succeeded, !.totalFailed = @ + result.failed]

\* HandleDeleteCompleted that clears and reloads only when nothing failed
HandleDeleteCompleted_OnlyOnSuccess(d) ==
    /\ toast' = DeleteToast(d.totalSucceeded, d.totalFailed)
    /\ showDeleteModal' = FALSE
    /\ IF d.totalFailed > 0
       THEN /\ UNCHANGED <<selectedIds, events, loading, loads>>
            /\ deleting' = FALSE /\ del' = IdleDelete
       ELSE /\ selectedIds' = <<>>
            /\ LoadEvents(d.calendarIds, d.timeMin, d.timeMax, TRUE)
            /\ IF d.calendarIds = <<>>
               THEN deleting' = FALSE /\ del' = IdleDelete
               ELSE deleting' = TRUE /\ del' = [d EXCEPT !.pc = "reloading", !.queue = <<>>]

\* lines 269-285 and, when loadEvents returns at once, 298-300
HandleDeleteCompleted(d) ==
    /\ toast' = DeleteToast(d.totalSucceeded, d.totalFailed)
    /\ selectedIds' = <<>>
    /\ showDeleteModal' = FALSE
    /\ LoadEvents(d.calendarIds, d.timeMin, d.timeMax, TRUE)
    /\ IF d.calendarIds = <<>>
       THEN deleting' = FALSE /\ del' = IdleDelete
       ELSE deleting' = TRUE /\ del' = [d EXCEPT !.pc = "reloading", !.queue = <<>>]

\* lines 243-264: up to the first api.deleteEvents, or to the end when nothing is sent
HandleDelete ==
    LET eventsByCalendar == GroupByCalendar(selectedIds, events)
        d == [pc |-> "deleting", queue |-> eventsByCalendar,
              totalSucceeded |-> 0, totalFailed |-> 0,
              calendarIds |-> selectedCalendarIds, timeMin |-> timeMin, timeMax |-> timeMax]
    IN  /\ IF eventsByCalendar = <<>>
           THEN /\ HandleDeleteCompleted(d)
                /\ obs' = [planned |-> <<>>, calls |-> <<>>, results |-> <<>>,
                           outcome |-> "completed"]
           ELSE /\ deleting' = TRUE
                /\ del' = d
                /\ obs' = [planned |-> eventsByCalendar, calls |-> <<eventsByCalendar[1]>>,
                           results |-> <<>>, outcome |-> "running"]
                /\ UNCHANGED <<events, selectedIds, loading, showDeleteModal, toast, loads>>
        /\ UNCHANGED <<calendars, selectedCalendarIds, timeMin, timeMax, searchQuery,
                       server, calendarsRequest, logoutTimer, loggedOut>>

\* lines 264-285: api.deleteEvents answers; ok are the ids the provider deleted
HandleDeleteReturned(ok) ==
    LET batch == Head(del.queue)
        result == DeleteResult(batch.eventIds, ok)
        d == [Accumulate(del, result) EXCEPT !.queue = Tail(del.queue)]
        answered == [calendarId |-> batch.calendarId, ok |-> ok,
                     failed |-> Range(batch.eventIds) \ ok, result |-> result]
    IN  /\ server' = ServerAfterDelete(batch.calendarId, ok)
        /\ IF d.queue # <<>>
           THEN /\ del' = d
                /\ obs' = [obs EXCEPT !.calls = Append(@, Head(d.queue)),
                                      !.results = Append(@, answered)]
                /\ UNCHANGED <<events, selectedIds, loading, showDeleteModal, deleting,
                               toast, loads>>
           ELSE /\ HandleDeleteCompleted(d)
                /\ obs' = [obs EXCEPT !.results = Append(@, answered),
                                      !.outcome = "completed"]
        /\ UNCHANGED <<calendars, selectedCalendarIds, timeMin, timeMax, searchQuery,
                       calendarsRequest, logoutTimer, loggedOut>>

\* HandleDeleteAuthError with the selection cleared as on the completed path
HandleDeleteAuthError_ClearsSelection ==
    /\ toast' = SessionExpiredToast
    /\ logoutTimer' = TRUE
    /\ deleting' = FALSE
    /\ del' = IdleDelete
    /\ obs' = [obs EXCEPT !.outcome = "auth"]
    /\ selectedIds' = <<>>
    /\ UNCHANGED <<calendars, selectedCalendarIds, events, loading,
                   showDeleteModal, timeMin, timeMax, searchQuery, server,
                   calendarsRequest, loads, loggedOut>>

\* HandleDeleteAuthError whose early return leaves without the finally block
HandleDeleteAuthError_SkipsFinally ==
    /\ toast' = SessionExpiredToast
    /\ logoutTimer' = TRUE
    /\ del' = IdleDelete
    /\ obs' = [obs EXCEPT !.outcome = "auth"]
    /\ UNCHANGED <<calendars, selectedCalendarIds, events, selectedIds, loading,
                   showDeleteModal, deleting, timeMin, timeMax, searchQuery, server,
                   calendarsRequest, loads, loggedOut>>

\* lines 286-294 and 298-300: api.deleteEvents throws AuthError TOKEN_EXPIRED
HandleDeleteAuthError ==
    /\ toast' = SessionExpiredToast
    /\ logoutTimer' = TRUE
    /\ deleting' = FALSE
    /\ del' = IdleDelete
    /\ obs' = [obs EXCEPT !.outcome = "auth"]
    /\ UNCHANGED <<calendars, selectedCalendarIds, events, selectedIds, loading,
                   showDeleteModal, timeMin, timeMax, searchQuery, server,
                   calendarsRequest, loads, loggedOut>>

\* lines 286-300: api.deleteEvents throws anything else
HandleDeleteFailed ==
    /\ toast' = DeleteFailedToast
    /\ deleting' = FALSE
    /\ del' = IdleDelete
    /\ obs' = [obs EXCEPT !.outcome = "error"]
    /\ UNCHANGED <<calendars, selectedCalendarIds, events, selectedIds, loading,
                   showDeleteModal, timeMin, timeMax, searchQuery, server,
                   calendarsRequest, loads, logoutTimer, loggedOut>>

(***************************************************************************)
(* The steps of the system: what the user can do with what is rendered,    *)
(* and the answers of the network.  Each records itself in last.           *)
(***************************************************************************)
Record(op, arg) ==
    last' = [op |-> op, arg |-> arg, sel |-> Range(selectedIds),
             rep |-> (last.op = op /\ last.arg = arg)]

\* obs describes the handleDelete run in progress or just ended
KeepObs == obs' = IF del.pc = "idle" THEN NoObs ELSE obs

Mounted == ~loggedOut

\* a step of the user
User(op, arg) ==
    /\ Mounted
    /\ actions < MaxActions
    /\ actions' = actions + 1
    /\ Record(op, arg)

\* a step of the network: an answer, or a timer
Network(op) ==
    /\ Mounted
    /\ actions' = actions
    /\ Record(op, "")

CanLoad == Len(loads) < MaxLoads

\* lines 422-428: a calendar chip
ClickCalendar(calendarId) ==
    /\ User("handleCalendarToggle", calendarId) /\ KeepObs
    /\ \E i \in 1..Len(calendars) : calendars[i].id = calendarId
    /\ CanLoad
    /\ HandleCalendarToggle(calendarId)

\* lines 460-464
ChangeDateRange(newTimeMin, newTimeMax) ==
    /\ User("handleDateRangeChange", "") /\ KeepObs
    /\ CanLoad
    /\ HandleDateRangeChange(newTimeMin, newTimeMax)

\* lines 470-475
TypeSearch(query) ==
    /\ User("handleSearchChange", "") /\ KeepObs
    /\ query # searchQuery
    /\ HandleSearchChange(query)

\* lines 481-484, 507 and 305-309
SelectAll ==
    /\ User("handleSelectAll", "") /\ KeepObs
    /\ ~loading /\ filteredEvents # <<>>
    /\ HandleSelectAll

\* lines 515-522: a row of the event list
ToggleEvent(eventId) ==
    /\ User("handleToggleEvent", eventId) /\ KeepObs
    /\ ~loading /\ eventId \in VisibleIds
    /\ HandleToggleEvent(eventId)

\* lines 398-400
Refresh ==
    /\ User("handleRefresh", "") /\ KeepObs
    /\ ~loading
    /\ CanLoad
    /\ HandleRefresh

\* lines 546-548, 563 and 579-580, and 310-314
OpenDeleteModal ==
    /\ User("handleDeleteModalOpen", "") /\ KeepObs
    /\ selectedIds # <<>> /\ ~showDeleteModal
    /\ HandleDeleteModalOpen

\* lines 594-601 and 315-317
CancelDelete ==
    /\ User("onCancel", "") /\ KeepObs
    /\ showDeleteModal
    /\ CloseDeleteModal

\* lines 594-601: the confirm button, disabled while deleting
ConfirmDelete ==
    /\ User("handleDelete", "")
    /\ showDeleteModal /\ ~deleting
    /\ CanLoad
    /\ HandleDelete

DeleteEventsAnswers ==
    /\ Network("deleteEvents")
    /\ del.pc = "deleting"
    /\ \E ok \in SUBSET DeletableIds(Head(del.queue).calendarId, Head(del.queue).eventIds) :
           HandleDeleteReturned(ok)

\* the provider deletes every id of the batch that it holds
DeleteEventsSucceeds ==
    /\ Network("deleteEvents")
    /\ del.pc = "deleting"
    /\ HandleDeleteReturned(DeletableIds(Head(del.queue).calendarId, Head(del.queue).eventIds))

DeleteEventsAuthError ==
    /\ Network("deleteEventsAuthError")
    /\ del.pc = "deleting"
    /\ HandleDeleteAuthError

DeleteEventsFails ==
    /\ Network("deleteEventsFails")
    /\ del.pc = "deleting"
    /\ HandleDeleteFailed

GetCalendarsAnswers ==
    /\ Network("getCalendars") /\ KeepObs
    /\ calendarsRequest = "pending"
    /\ \E fetchedCalendars \in CalendarLists : LoadCalendarsFetched(fetchedCalendars)

GetCalendarsAnswersAny ==
    /\ Network("getCalendars") /\ KeepObs
    /\ calendarsRequest = "pending"
    /\ \E fetchedCalendars \in AnyCalendarLists : LoadCalendarsFetched(fetchedCalendars)

GetCalendarsAuthError ==
    /\ Network("getCalendarsAuthError") /\ KeepObs
    /\ calendarsRequest = "pending"
    /\ LoadCalendarsAuthError

GetCalendarsFails ==
    /\ Network("getCalendarsFails") /\ KeepObs
    /\ calendarsRequest = "pending"
    /\ LoadCalendarsFailed

GetEventsAnswers ==
    /\ Network("getEvents") /\ obs' = obs
    /\ \E i \in 1..Len(loads) : LoadEventsFetched(i)

GetEventsAuthError ==
    /\ Network("getEventsAuthError") /\ obs' = obs
    /\ \E i \in 1..Len(loads) : LoadEventsAuthError(i)

\* arg tells whether the run had already fetched events from an earlier calendar
GetEventsFails ==
    /\ Mounted /\ actions' = actions /\ obs' = obs
    /\ \E i \in 1..Len(loads) :
           /\ Record("getEventsFails", IF loads[i].allEvents # <<>> THEN "partial" ELSE "")
           /\ LoadEventsFailed(i)

DismissToast ==
    /\ User("onClose", "") /\ KeepObs
    /\ toast # NoToast
    /\ CloseToast

LogoutTimerFires ==
    /\ Network("logout") /\ KeepObs
    /\ logoutTimer
    /\ Logout

Init ==
    /\ calendars = <<>>
    /\ selectedCalendarIds = <<>>
    /\ events = <<>>
    /\ selectedIds = <<>>
    /\ loading = TRUE
    /\ showDeleteModal = FALSE
    /\ deleting = FALSE
    /\ toast = NoToast
    /\ timeMin = <<1>>
    /\ timeMax = <<3>>
    /\ searchQuery = <<>>
    /\ server = Range(ProviderOrder)
    /\ calendarsRequest = "pending"
    /\ loads = <<>>
    /\ del = IdleDelete
    /\ logoutTimer = FALSE
    /\ loggedOut = FALSE
    /\ obs = NoObs
    /\ actions = 0
    /\ last = [op |-> "mount", arg |-> "", sel |-> {}, rep |-> FALSE]

(***************************************************************************)
(* Spec: the dashboard with a network whose event loads succeed; delete    *)
(* requests may succeed id by id, be refused as unauthenticated, or fail.  *)
(***************************************************************************)
Next ==
    \/ \E calendarId \in {"c1", "c2"} : ClickCalendar(calendarId)
    \/ \E newTimeMin \in TimeMins, newTimeMax \in TimeMaxes :
           ChangeDateRange(newTimeMin, newTimeMax)
    \/ \E query \in Queries : TypeSearch(query)
    \/ SelectAll
    \/ \E eventId \in EventIds : ToggleEvent(eventId)
    \/ Refresh
    \/ OpenDeleteModal
    \/ CancelDelete
    \/ ConfirmDelete
    \/ GetCalendarsAnswers
    \/ GetEventsAnswers
    \/ DeleteEventsAnswers
    \/ DeleteEventsAuthError
    \/ DeleteEventsFails

Spec == Init /\ [][Next]_vars

(***************************************************************************)
(* FilterSpec: the search bar over aggregates whose events carry titles,   *)
(* descriptions with markup, locations, accents and capitals.  The         *)
(* aggregate is one loadEvents could have stored: tagged, and sorted.      *)
(***************************************************************************)
MaxAggregate == 3

FvCesar == [id |-> "A", calendarId |-> "c1", calendarColor |-> "red",
            start |-> [dateTime |-> <<2, 9, 2>>, date |-> <<>>],
            summary |-> <<"C", "e_acute", "s">>, description |-> <<>>, location |-> <<>>]

\* the same event as the other calendar holds it
FvCesar2 == [FvCesar EXCEPT !.calendarId = "c2", !.calendarColor = "blue"]

FvMarkup == [id |-> "B", calendarId |-> "c1", calendarColor |-> "red",
             start |-> [dateTime |-> <<2, 9, 2>>, date |-> <<>>],
             summary |-> <<>>,
             description |-> <<"<", "b", ">", "x", "<", "/", "b", ">">>,
             location |-> <<>>]

FvPlace == [id |-> "C", calendarId |-> "c2", calendarColor |-> "blue",
            start |-> [dateTime |-> <<>>, date |-> <<2>>],
            summary |-> <<"y">>, description |-> <<>>, location |-> <<"X">>]

FvUntitled == [id |-> "D", calendarId |-> "c1", calendarColor |-> "red",
               start |-> [dateTime |-> <<2, 9, 2>>, date |-> <<>>],
               summary |-> <<>>, description |-> <<>>, location |-> <<>>]

FilterEvents == {FvCesar, FvCesar2, FvMarkup, FvPlace, FvUntitled}

\* what the user may type: nothing, "ces", a capital E with acute, "x", "b", a lone
\* combining acute, "z"
FilterQueries ==
    {<<>>, <<"c", "e", "s">>, <<"E_ACUTE">>, <<"x">>, <<"b">>, <<"acute">>, <<"z">>}

\* the aggregates loadEvents may have stored: no event twice, sorted by line 106-110
FilterAggregates ==
    {s \in UNION {[1..n -> FilterEvents] : n \in 0..MaxAggregate} :
        /\ \A i, j \in 1..Len(s) : i # j => s[i] # s[j]
        /\ SortEvents(s) = s}

FilterInit ==
    /\ calendars = SortCalendars(<<Cal2, Cal1>>)
    /\ selectedCalendarIds = <<"c1", "c2">>
    /\ events \in FilterAggregates
    /\ selectedIds = <<>>
    /\ loading = FALSE
    /\ showDeleteModal = FALSE
    /\ deleting = FALSE
    /\ toast = NoToast
    /\ timeMin = <<1>>
    /\ timeMax = <<3>>
    /\ searchQuery = <<>>
    /\ server = Range(ProviderOrder)
    /\ calendarsRequest = "done"
    /\ loads = <<>>
    /\ del = IdleDelete
    /\ logoutTimer = FALSE
    /\ loggedOut = FALSE
    /\ obs = NoObs
    /\ actions = 0
    /\ last = [op |-> "getEvents", arg |-> "", sel |-> {}, rep |-> FALSE]

FilterNext == \E query \in FilterQueries : TypeSearch(query)

FilterSpec == FilterInit /\ [][FilterNext]_vars

(***************************************************************************)
(* LoadSpec: calendar toggles, date range changes, refreshes and the       *)
(* answers of the fetches, every fetch succeeding and nothing deleted.     *)
(***************************************************************************)
LoadNext ==
    \/ \E calendarId \in {"c1", "c2"} : ClickCalendar(calendarId)
    \/ \E newTimeMin \in TimeMins, newTimeMax \in TimeMaxes :
           ChangeDateRange(newTimeMin, newTimeMax)
    \/ Refresh
    \/ GetCalendarsAnswers
    \/ GetEventsAnswers

LoadSpec == Init /\ [][LoadNext]_vars

(***************************************************************************)
(* FailSpec: a network that may answer any request, refuse it as           *)
(* unauthenticated or fail it, in the initial time window: calendar        *)
(* toggles, refreshes, a selection and its deletion, the toast dismissed   *)
(* by the user, and the logout timer firing.                               *)
(***************************************************************************)
FailNext ==
    \/ \E calendarId \in {"c1", "c2"} : ClickCalendar(calendarId)
    \/ Refresh
    \/ \E eventId \in EventIds : ToggleEvent(eventId)
    \/ OpenDeleteModal
    \/ ConfirmDelete
    \/ DeleteEventsAnswers
    \/ DeleteEventsAuthError
    \/ DeleteEventsFails
    \/ GetCalendarsAnswers
    \/ GetCalendarsAuthError
    \/ GetCalendarsFails
    \/ GetEventsAnswers
    \/ GetEventsAuthError
    \/ GetEventsFails
    \/ DismissToast
    \/ LogoutTimerFires

FailSpec == Init /\ [][FailNext]_vars

\* a timer set with setTimeout(..., 2000) fires
FairFailSpec == Init /\ [][FailNext]_vars /\ WF_vars(LogoutTimerFires)

(***************************************************************************)
(* ZonedSpec: loads from a provider whose two calendars are kept in two    *)
(* time zones, holding any of the events of ZonedOrder.                    *)
(***************************************************************************)
ZonedInit ==
    /\ calendars = <<>>
    /\ selectedCalendarIds = <<>>
    /\ events = <<>>
    /\ selectedIds = <<>>
    /\ loading = TRUE
    /\ showDeleteModal = FALSE
    /\ deleting = FALSE
    /\ toast = NoToast
    /\ timeMin = <<1>>
    /\ timeMax = <<3>>
    /\ searchQuery = <<>>
    /\ server \in SUBSET Range(ZonedOrder)
    /\ calendarsRequest = "pending"
    /\ loads = <<>>
    /\ del = IdleDelete
    /\ logoutTimer = FALSE
    /\ loggedOut = FALSE
    /\ obs = NoObs
    /\ actions = 0
    /\ last = [op |-> "mount", arg |-> "", sel |-> {}, rep |-> FALSE]

ZonedNext ==
    \/ \E calendarId \in {"c1", "c2"} : ClickCalendar(calendarId)
    \/ Refresh
    \/ GetCalendarsAnswers
    \/ GetEventsAnswers

ZonedSpec == ZonedInit /\ [][ZonedNext]_vars

(***************************************************************************)
(* ModalSpec: while the delete dialog is open the page under it takes no   *)
(* click; the keyboard shortcuts of lines 304-330 are listened for on the  *)
(* document and stay available, as do the two buttons of the dialog.       *)
(***************************************************************************)
ModalNext ==
    \/ ~showDeleteModal /\ \E calendarId \in {"c1", "c2"} : ClickCalendar(calendarId)
    \/ ~showDeleteModal /\ \E eventId \in EventIds : ToggleEvent(eventId)
    \/ SelectAll
    \/ OpenDeleteModal
    \/ CancelDelete
    \/ ConfirmDelete
    \/ GetCalendarsAnswers
    \/ GetEventsAnswers
    \/ DeleteEventsAnswers

ModalSpec == Init /\ [][ModalNext]_vars

(***************************************************************************)
(* CalendarSpec: api.getCalendars() answers any list of up to four         *)
(* calendars, with or without the primary one.                             *)
(***************************************************************************)
CalendarNext ==
    \/ \E calendarId \in {"c1", "c2", "c3", "c4"} : ClickCalendar(calendarId)
    \/ GetCalendarsAnswersAny
    \/ GetEventsAnswers

CalendarSpec == Init /\ [][CalendarNext]_vars

(***************************************************************************)
(* LimitSpec: calendar c1 holds one event fewer than a request returns at  *)
(* most, exactly as many, or one more; calendar c2 holds one event.        *)
(***************************************************************************)
LimitInit ==
    /\ calendars = <<>>
    /\ selectedCalendarIds = <<>>
    /\ events = <<>>
    /\ selectedIds = <<>>
    /\ loading = TRUE
    /\ showDeleteModal = FALSE
    /\ deleting = FALSE
    /\ toast = NoToast
    /\ timeMin = <<1>>
    /\ timeMax = <<3>>
    /\ searchQuery = <<>>
    /\ \E n \in {maxResults - 1, maxResults, maxResults + 1} :
           server = Range(SubSeq(BulkOrder, 1, n)) \cup {EvC2}
    /\ calendarsRequest = "pending"
    /\ loads = <<>>
    /\ del = IdleDelete
    /\ logoutTimer = FALSE
    /\ loggedOut = FALSE
    /\ obs = NoObs
    /\ actions = 0
    /\ last = [op |-> "mount", arg |-> "", sel |-> {}, rep |-> FALSE]

LimitNext ==
    \/ \E calendarId \in {"c1", "c2"} : ClickCalendar(calendarId)
    \/ SelectAll
    \/ OpenDeleteModal
    \/ ConfirmDelete
    \/ GetCalendarsAnswers
    \/ GetEventsAnswers
    \/ DeleteEventsSucceeds

LimitSpec == LimitInit /\ [][LimitNext]_vars

(***************************************************************************)
(* KeySpec: useKeyboardShortcuts.  The listener is on the document, so a   *)
(* keydown arrives whatever has the focus; the element that has it is the  *)
(* target of the event.                                                    *)
(***************************************************************************)
\* the keys the handler tells apart and one it ignores; targets that are an input,
\* a textarea, a content-editable element, and the body
KeyboardEvents ==
    [key : {"Escape", "?", "a", "Delete", "Backspace", "f", "/", "x"},
     metaKey : BOOLEAN, ctrlKey : BOOLEAN,
     target : {[tagName |-> "INPUT", isContentEditable |-> FALSE],
               [tagName |-> "TEXTAREA", isContentEditable |-> FALSE],
               [tagName |-> "DIV", isContentEditable |-> TRUE],
               [tagName |-> "BODY", isContentEditable |-> FALSE]}]

\* line 14
IsInputFocused(target) ==
    target.tagName = "INPUT" \/ target.tagName = "TEXTAREA" \/ target.isContentEditable

\* line 15
IsMod(event) == event.metaKey \/ event.ctrlKey

\* handleKeyDown whose Delete/Backspace branch does not look at the focus
HandleKeyDown_DeleteUnguarded(event) ==
    LET isInputFocused == IsInputFocused(event.target)
        isMod == IsMod(event)
    IN  IF event.key = "Escape" THEN <<"onEscape">>
        ELSE IF event.key = "?" /\ ~isInputFocused THEN <<"onShowShortcuts">>
        ELSE IF isMod /\ event.key = "a" /\ ~isInputFocused THEN <<"onSelectAll">>
        ELSE IF event.key = "Delete" \/ event.key = "Backspace" THEN <<"onDelete">>
        ELSE IF isMod /\ event.key = "f" THEN <<"onFocusSearch">>
        ELSE IF event.key = "/" /\ ~isInputFocused THEN <<"onFocusSearch">>
        ELSE <<>>

\* lines 12-57: the handlers handleKeyDown invokes, in order; every branch returns
HandleKeyDown(event) ==
    LET isInputFocused == IsInputFocused(event.target)
        isMod == IsMod(event)
    IN  IF event.key = "Escape" THEN <<"onEscape">>
        ELSE IF event.key = "?" /\ ~isInputFocused THEN <<"onShowShortcuts">>
        ELSE IF isMod /\ event.key = "a" /\ ~isInputFocused THEN <<"onSelectAll">>
        ELSE IF (event.key = "Delete" \/ event.key = "Backspace") /\ ~isInputFocused
             THEN <<"onDelete">>
        ELSE IF isMod /\ event.key = "f" THEN <<"onFocusSearch">>
        ELSE IF event.key = "/" /\ ~isInputFocused THEN <<"onFocusSearch">>
        ELSE <<>>

\* a handler that sets no state of the dashboard kept here
NoRender ==
    UNCHANGED <<calendars, selectedCalendarIds, events, selectedIds, loading,
                showDeleteModal, deleting, toast, timeMin, timeMax, searchQuery, server,
                calendarsRequest, loads, del, logoutTimer, loggedOut>>

\* Dashboard.tsx lines 304-330: onSelectAll (305-309), onDelete (310-314) and
\* onEscape (315-323, the other two dialogs are not among the variables);
\* onFocusSearch moves the focus and onShowShortcuts opens the shortcuts dialog
Invoke(handler) ==
    CASE handler = "onSelectAll" ->
             IF ~loading /\ filteredEvents # <<>> THEN HandleSelectAll ELSE NoRender
      [] handler = "onDelete" ->
             IF selectedIds # <<>> /\ ~showDeleteModal THEN HandleDeleteModalOpen ELSE NoRender
      [] handler = "onEscape" ->
             IF showDeleteModal THEN CloseDeleteModal ELSE NoRender
      [] OTHER -> NoRender

\* lines 59-62: a keydown anywhere in the document
KeyDown(event) ==
    LET invoked == HandleKeyDown(event)
    IN  /\ Mounted
        /\ actions < MaxActions
        /\ actions' = actions + 1
        /\ last' = [op |-> "keydown", arg |-> event.key, sel |-> Range(selectedIds),
                    rep |-> (last.op = "keydown" /\ last.arg = event.key),
                    isMod |-> IsMod(event),
                    isInputFocused |-> IsInputFocused(event.target),
                    invoked |-> invoked]
        /\ KeepObs
        /\ IF invoked = <<>> THEN NoRender ELSE Invoke(invoked[1])

KeyNext ==
    \/ \E calendarId \in {"c1", "c2"} : ClickCalendar(calendarId)
    \/ \E eventId \in EventIds : ToggleEvent(eventId)
    \/ \E event \in KeyboardEvents : KeyDown(event)
    \/ GetCalendarsAnswers
    \/ GetEventsAnswers

KeySpec == Init /\ [][KeyNext]_vars

(***************************************************************************)
(* What the claims speak of.                                               *)
(***************************************************************************)
\* the ids of the events of a sequence
IdsOf(evs) == {e.id : e \in Range(evs)}

\* the ids of a sequence of eventsByCalendar entries
BatchIds(batches) == UNION {Range(batches[i].eventIds) : i \in 1..Len(batches)}

RECURSIVE SumSucceeded(_)
SumSucceeded(results) ==
    IF results = <<>> THEN 0 ELSE Head(results).result.succeeded + SumSucceeded(Tail(results))

RECURSIVE SumFailed(_)
SumFailed(results) ==
    IF results = <<>> THEN 0 ELSE Head(results).result.failed + SumFailed(Tail(results))

\* <<calendar, id>> of the events the answered delete calls reported deleted, and not
DeletedPairs(results) ==
    UNION {{<<results[i].calendarId, id>> : id \in results[i].ok} : i \in 1..Len(results)}

FailedPairs(results) ==
    UNION {{<<results[i].calendarId, id>> : id \in results[i].failed} : i \in 1..Len(results)}

PairsOf(evs) == {<<e.calendarId, e.id>> : e \in Range(evs)}

\* the step just taken belongs to handleDelete and all its delete calls have returned
DeleteCompletes == last'.op \in {"handleDelete", "deleteEvents"} /\ obs'.outcome = "completed"

\* the step just taken is the end of the loadEvents that handleDelete awaited
ReloadCompletes == last'.op = "getEvents" /\ del.pc = "reloading" /\ del'.pc = "idle"

(***************************************************************************)
(* C1.  When a deleteEvents call of handleDelete fails with an             *)
(* authentication failure, the run ends there: the entries of              *)
(* eventsByCalendar not yet dispatched are never sent, and no step of the  *)
(* run (its start, the answers before the failure, the failure) has        *)
(* changed selectedIds.                                                    *)
(***************************************************************************)
C1_AuthFailureHaltsDelete ==
    [][/\ last'.op = "deleteEventsAuthError" =>
            /\ del'.pc = "idle" /\ del'.queue = <<>>
            /\ obs'.calls = obs.calls
            /\ Len(obs'.calls) = Len(obs'.results) + 1
            /\ selectedIds' = selectedIds
       /\ (last'.op \in {"handleDelete", "deleteEvents"} /\ obs'.outcome = "running") =>
            selectedIds' = selectedIds
       /\ obs.outcome = "auth" => last'.op \notin {"deleteEvents", "deleteEventsAuthError",
                                                   "deleteEventsFails"}]_vars

\* the first of two calendar batches was refused: the second was never sent and
\* the selection is the one the run started with
C1_Witness ==
    /\ last.op = "deleteEventsAuthError"
    /\ obs.outcome = "auth"
    /\ Len(obs.planned) = 2 /\ Len(obs.calls) = 1
    /\ selectedIds # <<>>
    /\ BatchIds(obs.planned) \subseteq Range(selectedIds)

(***************************************************************************)
(* C2.  When all deleteEvents calls of a handleDelete run have returned,   *)
(* with or without failed ids, the same step empties selectedIds and       *)
(* calls loadEvents: a new run that starts from nothing for the selected   *)
(* calendars, or the empty aggregate when no calendar is selected.         *)
(***************************************************************************)
C2_CompletionClearsAndReloads ==
    [][DeleteCompletes =>
          LET captured == IF del.pc = "deleting" THEN del.calendarIds
                          ELSE selectedCalendarIds
          IN  /\ selectedIds' = <<>>
              /\ IF captured = <<>>
                 THEN events' = <<>> /\ loading' = FALSE
                 ELSE /\ Len(loads') = Len(loads) + 1
                      /\ loads'[Len(loads')].calendarIds = captured
                      /\ loads'[Len(loads')].allEvents = <<>>
                      /\ loading']_vars

\* a run in which an id failed has completed: the selection is gone, the reload runs
C2_Witness ==
    /\ last.op = "deleteEvents"
    /\ obs.outcome = "completed"
    /\ toast.failed > 0 /\ toast.succeeded > 0
    /\ last.sel # {}
    /\ selectedIds = <<>>
    /\ \E i \in 1..Len(loads) : loads[i].awaited /\ loads[i].allEvents = <<>>

(***************************************************************************)
(* C3.  The totals handleDelete reports are the sums of the succeeded and  *)
(* failed counts of its deleteEvents calls, one count per id; and when the *)
(* reload it awaits has stored its result, the aggregate holds none of the *)
(* events reported deleted and every failed one that the reload's          *)
(* calendars and time window cover.                                        *)
(***************************************************************************)
C3_TotalsAreSums ==
    [][/\ DeleteCompletes =>
            /\ toast'.succeeded = SumSucceeded(obs'.results)
            /\ toast'.failed = SumFailed(obs'.results)
            /\ toast'.succeeded = Cardinality(DeletedPairs(obs'.results))
            /\ toast'.failed = Cardinality(FailedPairs(obs'.results))
       /\ ReloadCompletes =>
            /\ PairsOf(events') \cap DeletedPairs(obs.results) = {}
            /\ \A e \in server :
                   (/\ <<e.owner, e.id>> \in FailedPairs(obs.results)
                    /\ e.owner \in Range(del.calendarIds)
                    /\ InWindow(e, del.timeMin, del.timeMax))
                   => <<e.owner, e.id>> \in PairsOf(events')]_vars

\* A and B of calendar c1 and C of calendar c2 were selected, B failed: 2 and 1 are
\* reported and the reloaded aggregate holds B and neither A nor C
C3_Witness ==
    /\ last.op = "getEvents"
    /\ obs.outcome = "completed" /\ del.pc = "idle"
    /\ DeletedPairs(obs.results) = {<<"c1", "A">>, <<"c2", "C">>}
    /\ FailedPairs(obs.results) = {<<"c1", "B">>}
    /\ toast.succeeded = 2 /\ toast.failed = 1
    /\ <<"c1", "B">> \in PairsOf(events)
    /\ <<"c1", "A">> \notin PairsOf(events)
    /\ <<"c2", "C">> \notin PairsOf(events)

(***************************************************************************)
(* C4.  The ids handleDelete puts into delete requests are exactly the     *)
(* selected ids that some event of the aggregate carries, hidden by the    *)
(* search query or not; each goes to one calendar; a run never sends       *)
(* another id, a run whose calls all return has sent them all, and its     *)
(* totals count them and nothing else.                                     *)
(***************************************************************************)
C4_SentIdsAreResolvedSelection ==
    [][/\ last'.op = "handleDelete" =>
            LET resolved == Range(selectedIds) \cap IdsOf(events)
                planned == obs'.planned
            IN  /\ BatchIds(planned) = resolved
                /\ \A i, j \in 1..Len(planned) :
                       i # j => Range(planned[i].eventIds) \cap Range(planned[j].eventIds) = {}
                /\ \A i \in 1..Len(planned) : \A id \in Range(planned[i].eventIds) :
                       \E e \in Range(events) : e.id = id /\ e.calendarId = planned[i].calendarId
       /\ BatchIds(obs'.calls) \subseteq BatchIds(obs'.planned)
       /\ DeleteCompletes =>
            /\ obs'.calls = obs'.planned
            /\ toast'.succeeded + toast'.failed = Cardinality(BatchIds(obs'.planned))]_vars

\* handleDelete has started with a selected id that no event of the aggregate carries
\* and one that an event carries: only the second is in a request
C4_Witness ==
    /\ last.op = "handleDelete"
    /\ last.sel \ IdsOf(events) # {}
    /\ BatchIds(obs.planned) # {}
    /\ BatchIds(obs.planned) = last.sel \cap IdsOf(events)
    /\ BatchIds(obs.calls) \subseteq BatchIds(obs.planned)

C6_CalendarToggleClearsSelection ==
    [][last'.op = "handleCalendarToggle" =>
          /\ selectedIds' = <<>>
          /\ Range(selectedCalendarIds') =
                 IF last'.arg \in Range(selectedCalendarIds)
                 THEN Range(selectedCalendarIds) \ {last'.arg}
                 ELSE Range(selectedCalendarIds) \cup {last'.arg}]_vars

\* a calendar was toggled under a selection
C6_Witness ==
    /\ last.op = "handleCalendarToggle"
    /\ last.sel # {}
    /\ selectedIds = <<>>

(***************************************************************************)
(* C7.  handleSearchChange leaves selectedIds as it was, the ids of the    *)
(* events the new query hides included.                                    *)
(***************************************************************************)
C7_SearchKeepsSelection ==
    [][last'.op = "handleSearchChange" => selectedIds' = selectedIds]_vars

\* the query changed and hides an event of the aggregate that is marked
C7_Witness ==
    /\ last.op = "handleSearchChange"
    /\ \E id \in Range(selectedIds) : id \in IdsOf(events) /\ id \notin VisibleIds

(***************************************************************************)
(* C8.  As claimed: handleSelectAll empties the selection when it is       *)
(* exactly the set of visible ids and sets it to that set otherwise.       *)
(***************************************************************************)
C8_SelectAllComparesSets ==
    [][last'.op = "handleSelectAll" =>
          IF Range(selectedIds) = VisibleIds
          THEN selectedIds' = <<>>
          ELSE Range(selectedIds') = VisibleIds]_vars

(***************************************************************************)
(* C9.  As claimed: from the empty selection, handleSelectAll gives the    *)
(* visible ids, and handleSelectAll again gives the empty selection.       *)
(***************************************************************************)
C9_SelectAllTwice ==
    [][last'.op = "handleSelectAll" =>
          /\ selectedIds = <<>> => Range(selectedIds') = VisibleIds
          /\ (last.op = "handleSelectAll" /\ last.sel = {}) => selectedIds' = <<>>]_vars

(***************************************************************************)
(* C10.  handleToggleEvent adds an id that is not selected and removes one *)
(* that is, touching no other id; a second handleToggleEvent of the same   *)
(* id right after gives back the selection there was before the first.     *)
(***************************************************************************)
C10_ToggleTwiceRestores ==
    [][last'.op = "handleToggleEvent" =>
          /\ Range(selectedIds') =
                 IF last'.arg \in Range(selectedIds)
                 THEN Range(selectedIds) \ {last'.arg}
                 ELSE Range(selectedIds) \cup {last'.arg}
          /\ Len(selectedIds') = Cardinality(Range(selectedIds'))
          /\ last'.rep => Range(selectedIds') = last.sel]_vars

\* an id was toggled twice in a row while another id stayed marked
C10_Witness ==
    /\ last.op = "handleToggleEvent"
    /\ last.rep
    /\ last.arg \notin Range(selectedIds)
    /\ selectedIds # <<>>

\* a is b with some of its elements left out
RECURSIVE IsSubsequence(_, _)
IsSubsequence(a, b) ==
    IF a = <<>> THEN TRUE
    ELSE IF b = <<>> THEN FALSE
    ELSE IF Head(a) = Head(b) THEN IsSubsequence(Tail(a), Tail(b))
    ELSE IsSubsequence(a, Tail(b))

\* the texts of an event a search looks into: the title, the location and the
\* description without its markup, each when the event has it
SearchedTexts(e) ==
    {t \in {e.summary, e.location} : t # <<>>}
        \cup (IF e.description # <<>> THEN {stripHtml(e.description)} ELSE {})

(***************************************************************************)
(* C11.  With a non-empty search query the filtered view is a subsequence  *)
(* of the aggregate: it holds events of the aggregate only, none more      *)
(* often than the aggregate does, in the order of the aggregate.           *)
(***************************************************************************)
C11_FilteredIsSubsequence ==
    searchQuery # <<>> =>
        /\ IsSubsequence(filteredEvents, events)
        /\ \A e \in Range(filteredEvents) :
               Cardinality({i \in 1..Len(filteredEvents) : filteredEvents[i] = e})
                   <= Cardinality({i \in 1..Len(events) : events[i] = e})

\* a query was typed that keeps two events of the aggregate and hides one between them
C11_Witness ==
    /\ last.op = "handleSearchChange"
    /\ searchQuery # <<>>
    /\ Len(filteredEvents) = 2
    /\ \E i, j, k \in 1..Len(events) :
           /\ i < j /\ j < k
           /\ filteredEvents = <<events[i], events[k]>>

(***************************************************************************)
(* C12.  With the empty search query the filtered view is the aggregate:   *)
(* the same events in the same order.                                      *)
(***************************************************************************)
C12_EmptyQueryIsIdentity ==
    searchQuery = <<>> => filteredEvents = events

\* the query was emptied over an aggregate holding an event without any text
C12_Witness ==
    /\ last.op = "handleSearchChange"
    /\ searchQuery = <<>>
    /\ Len(events) >= 2
    /\ FvUntitled \in Range(events)
    /\ filteredEvents = events

(***************************************************************************)
(* C13.  With a non-empty search query an event of the aggregate is in the *)
(* filtered view if and only if its title, its location or its            *)
(* description without markup, normalized as the query is (decomposed,     *)
(* combining marks removed, lower case), contains the normalized query.    *)
(***************************************************************************)
C13_MatchIsNormalizedSubstring ==
    searchQuery # <<>> =>
        \A i \in 1..Len(events) :
            (events[i] \in Range(filteredEvents)) <=>
                \E t \in SearchedTexts(events[i]) :
                    Includes(normalizeString(t), normalizeString(searchQuery))

\* a capital E with acute was typed: the event titled with a small e with acute is
\* shown, the one whose only text is x inside markup is hidden
C13_Witness ==
    /\ last.op = "handleSearchChange"
    /\ searchQuery = <<"E_ACUTE">>
    /\ FvCesar \in Range(filteredEvents)
    /\ FvMarkup \in Range(events) /\ FvMarkup \notin Range(filteredEvents)

\* what a loadEvents of the current render stores when every fetch succeeds
CurrentFetch ==
    SortEvents(Concat([i \in 1..Len(selectedCalendarIds) |->
        TagEvents(GetEvents(selectedCalendarIds[i], maxResults, timeMin, timeMax),
                  selectedCalendarIds[i])]))

(***************************************************************************)
(* C14.  As claimed: once the calendars are known and no load is in        *)
(* flight, every fetch having succeeded, the aggregate is what the         *)
(* selected calendars hold in the current time window, whatever the order  *)
(* of toggles, date range changes, refreshes and answers.                  *)
(***************************************************************************)
C14_AggregateIsCurrent ==
    (calendars # <<>> /\ loads = <<>>) => events = CurrentFetch

(***************************************************************************)
(* C15.  A loadEvents run of which a fetch fails, as unauthenticated or    *)
(* otherwise, stores nothing: the answers before the failure and the       *)
(* failure itself leave events and selectedIds as they were, whatever the  *)
(* run had fetched so far.                                                 *)
(***************************************************************************)
C15_FailedLoadStoresNothing ==
    [][/\ last'.op \in {"getEventsFails", "getEventsAuthError"} =>
            /\ events' = events
            /\ selectedIds' = selectedIds
            /\ Len(loads') = Len(loads) - 1
       /\ (last'.op = "getEvents" /\ Len(loads') = Len(loads)) =>
            /\ events' = events
            /\ selectedIds' = selectedIds]_vars

\* the fetch of the second calendar failed after the first had answered: the
\* aggregate of before and the selection are still there
C15_Witness ==
    /\ last.op = "getEventsFails" /\ last.arg = "partial"
    /\ toast = LoadFailedToast
    /\ events # <<>>
    /\ selectedIds # <<>>
    /\ Range(selectedIds) = last.sel
    /\ events # CurrentFetch

\* the steps in which a network operation is refused as unauthenticated
AuthFailures == {"getCalendarsAuthError", "getEventsAuthError", "deleteEventsAuthError"}

(***************************************************************************)
(* C16.  An authentication failure of api.getCalendars, api.getEvents or   *)
(* api.deleteEvents sets the session-expired toast and the logout timer    *)
(* in the same step, and logout is invoked eventually.                     *)
(***************************************************************************)
C16_AuthFailureLeadsToLogout ==
    /\ [][last'.op \in AuthFailures => toast' = SessionExpiredToast /\ logoutTimer']_vars
    /\ \A op \in AuthFailures : (last.op = op) ~> loggedOut

\* logout was invoked after a delete request was refused: the toast is the
\* session-expired notice, the modal of the aborted run is still open
C16_Witness ==
    /\ loggedOut
    /\ last.op = "logout"
    /\ toast = SessionExpiredToast
    /\ showDeleteModal /\ ~deleting
    /\ selectedIds # <<>>
    /\ server # Range(ProviderOrder)

(***************************************************************************)
(* C17.  As claimed: a failure other than an authentication failure of     *)
(* api.getCalendars or of api.getEvents sets an error toast.               *)
(***************************************************************************)
C17_FetchFailureShowsToast ==
    [][last'.op \in {"getCalendarsFails", "getEventsFails"} =>
          toast' # NoToast /\ toast'.type = "error"]_vars

(***************************************************************************)
(* C18.  When the delete calls of a handleDelete run have all returned and *)
(* some id failed, the toast is of type error and its message states the   *)
(* number of succeeded and the number of failed ids; when none failed the  *)
(* toast is of type success and states the number of succeeded ids.        *)
(***************************************************************************)
C18_PartialFailureIsAnError ==
    [][DeleteCompletes =>
          LET succeeded == SumSucceeded(obs'.results)
              failed == SumFailed(obs'.results)
          IN  IF failed > 0
              THEN toast' = [kind |-> "deletedSomeFailed", type |-> "error",
                             succeeded |-> succeeded, failed |-> failed]
              ELSE toast' = [kind |-> "deleted", type |-> "success",
                             succeeded |-> succeeded, failed |-> 0]]_vars

\* of two selected events one was deleted and one was not
C18_Witness ==
    /\ last.op = "deleteEvents"
    /\ obs.outcome = "completed"
    /\ Cardinality(DeletedPairs(obs.results)) = 1
    /\ Cardinality(FailedPairs(obs.results)) = 1
    /\ toast = [kind |-> "deletedSomeFailed", type |-> "error", succeeded |-> 1, failed |-> 1]

\* the step just taken ran loadEvents, or the effect of lines 155-162 after a change
\* of one of its dependencies
Reloads ==
    \/ last'.op \in {"handleCalendarToggle", "handleRefresh", "getCalendars"}
    \/ last'.op = "handleDateRangeChange" /\ <<timeMin', timeMax'>> # <<timeMin, timeMax>>

(***************************************************************************)
(* C19.  A step that reloads the events while no calendar is selected      *)
(* leaves the aggregate empty and starts no loadEvents run; and a run in   *)
(* flight always has a calendar to ask for, so that no api.getEvents is    *)
(* ever issued for an empty selection.                                     *)
(***************************************************************************)
C19_EmptySelectionEmptyAggregate ==
    /\ [][(Reloads /\ selectedCalendarIds' = <<>>) =>
              events' = <<>> /\ loads' = loads]_vars
    /\ [](\A i \in 1..Len(loads) : loads[i].calendarIds # <<>>)

\* the only selected calendar was deselected after its events had been loaded
C19_Witness ==
    /\ last.op = "handleCalendarToggle" /\ last.arg = "c1"
    /\ calendars # <<>>
    /\ selectedCalendarIds = <<>>
    /\ server # {}
    /\ events = <<>>
    /\ loads = <<>> /\ ~loading

\* the start of an event as a point in time: an all-day event starts at the
\* midnight of its date
StartInstant(e) == Instant(StartKey(e))

\* the run loads[i] stores its result in the step just taken
LoadCompletes(i) ==
    /\ last'.op = "getEvents"
    /\ Tail(loads[i].calendarIds) = <<>>
    /\ loads' = RemoveAt(loads, i)

\* the events of the run loads[i] in the order they were fetched
Merged(i) ==
    LET calendarId == Head(loads[i].calendarIds)
    IN  loads[i].allEvents \o
            TagEvents(GetEvents(calendarId, maxResults, loads[i].timeMin, loads[i].timeMax),
                      calendarId)

(***************************************************************************)
(* C20.  As claimed: the aggregate a successful loadEvents stores holds    *)
(* the fetched events in non-decreasing order of the time they start, an   *)
(* all-day event starting at the midnight of its date, and events that     *)
(* start at the same time in the order they were fetched.                  *)
(***************************************************************************)
C20_SortedByStartTime ==
    [][\A i \in 1..Len(loads) : LoadCompletes(i) =>
          LET merged == Merged(i)
              Pos(e) == CHOOSE k \in 1..Len(merged) : merged[k] = e
          IN  /\ Range(events') = Range(merged) /\ Len(events') = Len(merged)
              /\ \A a, b \in 1..Len(events') : a < b =>
                     /\ StartInstant(events'[a]) <= StartInstant(events'[b])
                     /\ StartInstant(events'[a]) = StartInstant(events'[b])
                            => Pos(events'[a]) < Pos(events'[b])]_vars

\* the events the provider has ever held
ProviderEvents == Range(LongListing)

(***************************************************************************)
(* C21.  Every event of the aggregate carries as calendarId the calendar   *)
(* that holds it and whose api.getEvents returned it, with the fields the  *)
(* provider gave it; the filtered view holds events of the aggregate as    *)
(* they are there, calendarId included.                                    *)
(***************************************************************************)
C21_CalendarTagPreserved ==
    /\ \A i \in 1..Len(events) :
           \E p \in ProviderEvents :
               /\ p.owner = events[i].calendarId
               /\ p.id = events[i].id
               /\ p.start = events[i].start /\ p.summary = events[i].summary
    /\ \A i \in 1..Len(filteredEvents) : filteredEvents[i] \in Range(events)

\* a sorted aggregate of two calendars under a query: the view shows an event
\* of c2 and one of c1, and hides one
C21_Witness ==
    /\ searchQuery # <<>>
    /\ Len(filteredEvents) < Len(events)
    /\ \E i, j \in 1..Len(filteredEvents) :
           filteredEvents[i].calendarId = "c1" /\ filteredEvents[j].calendarId = "c2"
    /\ \E i, j \in 1..Len(events) :
           i < j /\ events[i].calendarId = "c2" /\ events[j].calendarId = "c1"

\* the events of the aggregate that a request for the calendar returned
ReturnedFor(calendarId) == SelectSeq(events, LAMBDA e : e.calendarId = calendarId)

(***************************************************************************)
(* C22.  When the aggregate holds, for some calendar, exactly maxResults   *)
(* events (the request for that calendar returned as many as it may), the  *)
(* count line carries the notice that not all events may be shown.         *)
(***************************************************************************)
C22_LimitReachedIsTold ==
    (\E calendarId \in {"c1", "c2"} : Len(ReturnedFor(calendarId)) = maxResults)
        => ShowsMaxNotice

\* USER_GUIDE.md, Limitations: "Maximum 100 events per deletion"
maxEventsPerDeletion == 100

\* the number of ids that the delete calls made so far were given
SubmittedIds(calls) ==
    Cardinality(UNION {{<<i, k>> : k \in 1..Len(calls[i].eventIds)} : i \in 1..Len(calls)})

(***************************************************************************)
(* C23.  The api.deleteEvents calls of one handleDelete are given at most  *)
(* maxEventsPerDeletion ids, all calendars taken together.                 *)
(***************************************************************************)
C23_DeletionIsCapped == SubmittedIds(obs.calls) <= maxEventsPerDeletion

(***************************************************************************)
(* C24.  When api.getCalendars() has answered, the calendar list has the   *)
(* primary calendar, if there is one, first and the others after it by     *)
(* ascending display name, the name the user gave taking precedence; the   *)
(* selected calendars are the primary one alone, else the first of the     *)
(* list alone, else none.                                                  *)
(***************************************************************************)
C24_CalendarsSortedAndSelected ==
    [][last'.op = "getCalendars" =>
          LET sorted == calendars'
              name(c) == IF c.summaryOverride # <<>> THEN c.summaryOverride ELSE c.summary
              primaries == {i \in 1..Len(sorted) : sorted[i].primary}
          IN  /\ primaries \subseteq {1}
              /\ \A i, j \in 1..Len(sorted) \ primaries :
                     i < j => NameCompare(name(sorted[i]), name(sorted[j])) <= 0
              /\ selectedCalendarIds' =
                     IF primaries # {} THEN <<sorted[1].id>>
                     ELSE IF sorted # <<>> THEN <<sorted[1].id>>
                     ELSE <<>>]_vars

\* the four calendars were answered: the primary one leads, the renamed one is last
C24_Witness ==
    /\ last.op = "getCalendars"
    /\ calendars = <<Cal1, Cal2, Cal4, Cal3>>
    /\ selectedCalendarIds = <<"c1">>

\* the orders in which n batches can be taken
Orders(n) == {p \in [1..n -> 1..n] : \A i, j \in 1..n : i # j => p[i] # p[j]}

\* lines 260-267 run over the answers in the given order
RECURSIVE AccumulateAll(_, _)
AccumulateAll(d, results) ==
    IF results = <<>> THEN d
    ELSE AccumulateAll(Accumulate(d, Head(results).result), Tail(results))

C27_EachEventToItsOwnCalendar ==
    [][last'.op = "handleDelete" =>
          /\ \A i \in 1..Len(events) :
                 events[i].id \in Range(selectedIds) =>
                     \E k \in 1..Len(obs'.planned) :
                         /\ obs'.planned[k].calendarId = events[i].calendarId
                         /\ events[i].id \in Range(obs'.planned[k].eventIds)
          /\ \A k \in 1..Len(obs'.planned) :
                 \A id \in Range(obs'.planned[k].eventIds) :
                     /\ id \in Range(selectedIds)
                     /\ <<obs'.planned[k].calendarId, id>> \in PairsOf(events)]_vars

(***************************************************************************)
(* C28.  When no loadEvents run is in flight, every selected id is the id  *)
(* of an event of the aggregate.                                           *)
(***************************************************************************)
C28_SelectionWithinAggregate ==
    loads = <<>> => Range(selectedIds) \subseteq IdsOf(events)

(***************************************************************************)
(* C29.  When a handleDelete run has ended, by the return of all its       *)
(* calls, by an authentication failure or by another error, and the reload *)
(* it awaited, if any, has stored its result, the aggregate holds no event *)
(* that a call of the run reported deleted.                                *)
(***************************************************************************)
C29_DeletedEventsLeaveAggregate ==
    (obs.outcome \notin {"none", "running"} /\ del.pc = "idle") =>
        PairsOf(events) \cap DeletedPairs(obs.results) = {}

(***************************************************************************)
(* C30.  While the delete dialog is open, selectedIds is not empty.        *)
(***************************************************************************)
C30_OpenModalHasSelection == showDeleteModal => selectedIds # <<>>

(***************************************************************************)
(* C31.  While a loadEvents run awaits an api.getEvents answer, loading is *)
(* true.                                                                   *)
(***************************************************************************)
C31_LoadingWhileInFlight == loads # <<>> => loading

(***************************************************************************)
(* C32.  Once api.getCalendars() has answered or failed and no loadEvents  *)
(* run awaits an answer, nothing of the mount is pending any more: loading *)
(* is false.                                                               *)
(***************************************************************************)
C32_LoadingEndsWithTheLoads ==
    (calendarsRequest # "pending" /\ loads = <<>>) => ~loading

(***************************************************************************)
(* C33.  deleting is true exactly while a handleDelete run is under way:   *)
(* from its start, through its api.deleteEvents calls and the reload it    *)
(* awaits, and false once it has ended, whichever way it ended.  Closing   *)
(* the dialog changes neither the run nor the flag nor the provider.       *)
(***************************************************************************)
C33_DeletingSpansTheRun ==
    [][/\ deleting <=> del.pc # "idle"
       /\ deleting' <=> del'.pc # "idle"
       /\ last'.op = "onCancel" =>
              /\ del' = del /\ deleting' = deleting
              /\ server' = server /\ loads' = loads]_vars

\* the dialog was closed while the first api.deleteEvents call was awaited
C33_Witness ==
    /\ last.op = "onCancel"
    /\ ~showDeleteModal
    /\ del.pc = "deleting" /\ obs.outcome = "running"
    /\ deleting

\* C34: a keydown invokes at most one shortcut handler.  While an input, a
\* textarea or a content-editable element has the focus it invokes none of
\* onSelectAll, onDelete and onShowShortcuts, so it marks no event and opens no
\* dialog; Escape invokes onEscape whatever has the focus, and the delete dialog
\* is closed after it.
C34_OneHandlerAndFocusGuards ==
    [][last'.op = "keydown" =>
          /\ Len(last'.invoked) <= 1
          /\ last'.isInputFocused =>
                 /\ Range(last'.invoked) \cap {"onSelectAll", "onDelete", "onShowShortcuts"} = {}
                 /\ last'.arg # "Escape" =>
                        selectedIds' = selectedIds /\ showDeleteModal' = showDeleteModal
          /\ last'.arg = "Escape" =>
                 last'.invoked = <<"onEscape">> /\ ~showDeleteModal']_vars

\* Delete was pressed in a focused field while events were marked and the dialog
\* was closed: nothing was invoked
C34_Witness ==
    /\ last.op = "keydown" /\ last.arg = "Delete"
    /\ last.isInputFocused
    /\ selectedIds # <<>> /\ ~showDeleteModal
    /\ last.invoked = <<>>

====
